---- MODULE Spec2Model ----
(***************************************************************************)
(* Model of wiki-downloader: download.py (HTTP client variant) and         *)
(* download-selenium.py (browser variant).  One run walks the page IDs of  *)
(* [start_page, end_page), asks the query API for each ID, fetches the raw *)
(* text of every page that is found, and finally exports the accumulated   *)
(* records as a table.  The remote site is the environment: what it        *)
(* answers for an ID is chosen when the ID is first requested and is       *)
(* replayed when the program is run again.                                 *)
(***************************************************************************)
EXTENDS Integers, Sequences, FiniteSets, TLC

VARIABLES variant, start_page, end_page, max_retries,
          pc, nextID, pageID, url, retries, title, collected_data,
          files, csv,
          remote, attempts, rawReqs, sentTo, writeLog, log, run, prev

vars == <<variant, start_page, end_page, max_retries,
          pc, nextID, pageID, url, retries, title, collected_data,
          files, csv,
          remote, attempts, rawReqs, sentTo, writeLog, log, run, prev>>

(***************************************************************************)
(* Bounds of the model.                                                    *)
(***************************************************************************)
\* longest range [start_page, end_page) explored
MaxLen == 2
\* largest --max_retries explored
MaxRetries == 2
\* pageID // 1000
ShardSize == 1000

\* the request counters saturate here (above every retry cap explored)
AttemptCap == MaxRetries + 1

Variants == {"requests", "selenium"}
StartIDs == {999, 2500}
AllIDs == UNION {s..(s + MaxLen - 1) : s \in StartIDs}
Range == start_page..(end_page - 1)

\* the table file does not exist
NoFile == [header |-> <<>>, rows |-> <<>>]
\* no metadata request has been sent
NoRequest == <<>>
Min(a, b) == IF a < b THEN a ELSE b
EmptyMap == [x \in {} |-> 0]
Count(f, p) == IF p \in DOMAIN f THEN f[p] ELSE 0
Bump(f, p) == [f EXCEPT ![p] = Min(@ + 1, AttemptCap)]

(***************************************************************************)
(* Pure functions of the program.                                          *)
(***************************************************************************)
\* str(n) for n >= 0: the decimal digits
RECURSIVE Str(_)
Str(n) == IF n < 10 THEN <<n>> ELSE Append(Str(n \div 10), n % 10)

\* BASE_URL, the prefix every metadata request starts with
BASE_URL == <<"api.php?pageids=">>

\* the loop's  url = f"{BASE_URL}{pageID}"  (download.py) and
\* url = f"{url}{pageID}"  (download-selenium.py, url being a parameter that
\* starts as the base URL and is reassigned on every iteration)
NextUrl(v, u, p) == IF v = "requests" THEN BASE_URL \o Str(p) ELSE u \o Str(p)

\* title.replace("/", "_")
RECURSIVE Sanitize(_)
Sanitize(t) ==
  IF t = <<>> THEN <<>>
  ELSE <<IF Head(t) = "/" THEN "_" ELSE Head(t)>> \o Sanitize(Tail(t))

\* the record appended for a page that is found
FoundRecord(p, page) ==
  [pageID |-> p, title |-> Sanitize(page.title),
   revisions_count |-> Len(page.revisions)]

MissingRecordNonZero(p) == [pageID |-> p, title |-> <<>>, revisions_count |-> 1]
\* the record appended for a page the API marks "missing"
MissingRecord(p) == [pageID |-> p, title |-> <<>>, revisions_count |-> 0]

ShardOfModulo(p) == p % ShardSize
\* pageID // 1000
ShardOf(p) == p \div ShardSize

\* os.path.join(output_folder, str(pageID // 1000), f"{pageID}.txt")
FilePath(p) == <<"output_folder", Str(ShardOf(p)), Str(p) \o <<".txt">>>>

WriteFileAppending(fs, path, text) ==
  [q \in DOMAIN fs \cup {path} |->
     IF q = path
     THEN (IF path \in DOMAIN fs THEN Append(fs[path], text) ELSE <<text>>)
     ELSE fs[q]]
\* open(file_path, "w").write(content): the file holds exactly the new text
WriteFile(fs, path, text) ==
  [q \in DOMAIN fs \cup {path} |-> IF q = path THEN <<text>> ELSE fs[q]]

CsvAfterSaveAlways(old, data) ==
  [header |-> <<"pageID", "title", "revisions_count">>, rows |-> data]
\* save_to_csv: nothing is written for an empty list, else the whole table
CsvAfterSave(old, data) ==
  IF data = <<>> THEN old
  ELSE [header |-> <<"pageID", "title", "revisions_count">>, rows |-> data]

(***************************************************************************)
(* The remote site.                                                        *)
(***************************************************************************)
\* pages the site may hold under an ID: the title and the revision ids the
\* API reports
SitePages == {[title |-> <<"F", "o", "o">>, revisions |-> <<11>>],
              [title |-> <<"F", "/", "B">>, revisions |-> <<11, 12>>]}
NoSitePage == [title |-> <<>>, revisions |-> <<>>]

\* what the site does with the requests made for one ID: the first `fails`
\* metadata requests fail at transport level, every later one is answered
\* with `kind`; `raw` says whether the raw-content request succeeds
RemoteStates(mr) ==
  {r \in [fails : 0..mr,
          kind : {"malformed", "absent", "missing", "found"},
          page : SitePages \cup {NoSitePage},
          raw : BOOLEAN] :
     IF r.kind = "found" THEN r.page \in SitePages
     ELSE r.page = NoSitePage /\ r.raw = FALSE}

\* the answer to the metadata request in flight for pageID (attempts counts
\* it already)
Resp == IF attempts[pageID] <= remote[pageID].fails THEN "fail"
        ELSE remote[pageID].kind

\* str(pageID) in pages: the API keys the entry by the id the URL asked for
EntryPresent == url = BASE_URL \o Str(pageID)

\* the raw text the site serves for index.php?title=<t>&action=raw: the text
\* of the page named t, as plain text (requests) or as the browser's
\* rendering of it (selenium: innerHTML of <pre>, or page_source)
RawContent(v, t) ==
  [page |-> t, form |-> IF v = "requests" THEN "text" ELSE "html"]

\* the loop is past ID p (pageID is the ID in hand; before the first
\* iteration it is unbound, modelled as start_page - 1)
Finished(p) ==
  /\ p \in Range
  /\ \/ p < pageID
     \/ p = pageID /\ pc \in {"for", "export", "exited"}

(***************************************************************************)
(* Initial state: the command line is parsed, nothing has run.  The retry  *)
(* cap is taken from 1..MaxRetries (with a cap below 1 the while loop is   *)
(* never entered and no request is made).  One text file of an ID outside  *)
(* the range exists already; no table file exists.                         *)
(***************************************************************************)
Init ==
  /\ variant \in Variants
  /\ start_page \in StartIDs
  /\ end_page \in start_page..(start_page + MaxLen)
  /\ max_retries \in 1..MaxRetries
  /\ pc = "for"
  /\ nextID = start_page
  /\ pageID = start_page - 1
  /\ url = BASE_URL
  /\ retries = 0
  /\ title = <<>>
  /\ collected_data = <<>>
  /\ files = (FilePath(1) :> <<"old">>)
  /\ csv = NoFile
  /\ remote = EmptyMap
  /\ attempts = EmptyMap
  /\ rawReqs = EmptyMap
  /\ sentTo = NoRequest
  /\ writeLog = <<>>
  /\ log = {}
  /\ run = 1
  /\ prev = [files |-> files, csv |-> csv]

args == <<variant, start_page, end_page, max_retries>>

(***************************************************************************)
(* fetch_page_data                                                         *)
(***************************************************************************)
\* for pageID in range(start_page, end_page): url = ...; retries = 0
NextPage ==
  /\ pc = "for"
  /\ nextID < end_page
  /\ pageID' = nextID
  /\ nextID' = nextID + 1
  /\ url' = NextUrl(variant, url, nextID)
  /\ retries' = 0
  /\ pc' = "while"
  /\ IF run = 1
     THEN \E r \in RemoteStates(max_retries) : remote' = (nextID :> r) @@ remote
     ELSE remote' = remote
  /\ attempts' = (nextID :> 0) @@ attempts
  /\ rawReqs' = (nextID :> 0) @@ rawReqs
  /\ UNCHANGED <<args, title, collected_data, files, csv, sentTo, writeLog,
                 log, run, prev>>

\* while retries < max_retries: false, the ID is left
WhileExit ==
  /\ pc = "while"
  /\ retries >= max_retries
  /\ pc' = "for"
  /\ UNCHANGED <<args, nextID, pageID, url, retries, title, collected_data,
                 files, csv, remote, attempts, rawReqs, sentTo, writeLog,
                 log, run, prev>>

\* while retries < max_retries: try: the metadata request is sent to url
\* (requests.get(url, ...) / driver.get(url))
SendRequest ==
  /\ pc = "while"
  /\ retries < max_retries
  /\ attempts' = Bump(attempts, pageID)
  /\ sentTo' = <<[id |-> pageID, url |-> url]>>
  /\ pc' = "response"
  /\ UNCHANGED <<args, nextID, pageID, url, retries, title, collected_data,
                 files, csv, remote, rawReqs, writeLog, log, run, prev>>

Requesting == pc = "response"

\* except requests.exceptions.RequestException: count, log, give up at the cap
ExceptRequestException ==
  /\ retries' = retries + 1
  /\ log' = log \cup {<<"error", pageID>>}
             \cup (IF retries + 1 < max_retries THEN {}
                   ELSE {<<"skip", pageID>>})
  /\ pc' = "while"

\* the request fails at transport level: requests raises RequestException,
\* which is caught; driver.get raises a WebDriverException, which no except
\* clause of download-selenium.py names
RequestFails ==
  /\ Requesting
  /\ Resp = "fail"
  /\ IF variant = "requests"
     THEN ExceptRequestException
     ELSE pc' = "aborted" /\ UNCHANGED <<retries, log>>
  /\ UNCHANGED <<args, nextID, pageID, url, title, collected_data, files, csv,
                 remote, attempts, rawReqs, sentTo, writeLog, run, prev>>

\* the body is not JSON: response.json() raises requests' JSONDecodeError, a
\* RequestException (requests >= 2.27); download-selenium.py logs and
\* `continue`s, which re-enters the while loop with retries unchanged
RequestMalformed ==
  /\ Requesting
  /\ Resp = "malformed"
  /\ IF variant = "requests"
     THEN ExceptRequestException
     ELSE /\ log' = log \cup {<<"parse", pageID>>}
          /\ pc' = "while"
          /\ UNCHANGED retries
  /\ UNCHANGED <<args, nextID, pageID, url, title, collected_data, files, csv,
                 remote, attempts, rawReqs, sentTo, writeLog, run, prev>>

\* JSON without an entry keyed str(pageID): nothing is recorded, break
RequestAbsent ==
  /\ Requesting
  /\ Resp \in {"absent", "missing", "found"}
  /\ Resp = "absent" \/ ~EntryPresent
  /\ pc' = "for"
  /\ UNCHANGED <<args, nextID, pageID, url, retries, title, collected_data,
                 files, csv, remote, attempts, rawReqs, sentTo, writeLog,
                 log, run, prev>>

\* the entry carries "missing": a zero record is appended, break
RequestMissing ==
  /\ Requesting
  /\ Resp = "missing"
  /\ EntryPresent
  /\ collected_data' = Append(collected_data, MissingRecord(pageID))
  /\ log' = log \cup {<<"missing", pageID>>}
  /\ pc' = "for"
  /\ UNCHANGED <<args, nextID, pageID, url, retries, title, files, csv,
                 remote, attempts, rawReqs, sentTo, writeLog, run, prev>>

\* the page is found: its record is appended and save_page_content is called
\* with the sanitized title
RequestFound ==
  /\ Requesting
  /\ Resp = "found"
  /\ EntryPresent
  /\ title' = Sanitize(remote[pageID].page.title)
  /\ collected_data' =
       Append(collected_data, FoundRecord(pageID, remote[pageID].page))
  /\ log' = log \cup {<<"scraped", pageID>>}
  /\ pc' = "content"
  /\ UNCHANGED <<args, nextID, pageID, url, retries, files, csv, remote,
                 attempts, rawReqs, sentTo, writeLog, run, prev>>

(***************************************************************************)
(* save_page_content                                                       *)
(***************************************************************************)
\* the raw request succeeds: the text is written, control returns to the
\* `break` of the retry loop
ContentSaved ==
  /\ pc = "content"
  /\ remote[pageID].raw
  /\ rawReqs' = Bump(rawReqs, pageID)
  /\ files' = WriteFile(files, FilePath(pageID), RawContent(variant, title))
  /\ writeLog' = Append(writeLog, [id |-> pageID, path |-> FilePath(pageID)])
  /\ log' = log \cup {<<"saved", pageID>>}
  /\ pc' = "for"
  /\ UNCHANGED <<args, nextID, pageID, url, retries, title, collected_data,
                 csv, remote, attempts, sentTo, run, prev>>

PcAfterContentFailureRetry(v) == IF v = "requests" THEN "while" ELSE "aborted"
\* where control goes when the raw request fails: save_page_content catches
\* RequestException and returns to the `break`; a WebDriverException of
\* driver.get is not caught
PcAfterContentFailure(v) == IF v = "requests" THEN "for" ELSE "aborted"

\* the raw request fails
ContentFails ==
  /\ pc = "content"
  /\ ~remote[pageID].raw
  /\ rawReqs' = Bump(rawReqs, pageID)
  /\ log' = IF variant = "requests" THEN log \cup {<<"rawfail", pageID>>}
            ELSE log
  /\ pc' = PcAfterContentFailure(variant)
  /\ UNCHANGED <<args, nextID, pageID, url, retries, title, collected_data,
                 files, csv, remote, attempts, sentTo, writeLog, run, prev>>

(***************************************************************************)
(* __main__                                                                *)
(***************************************************************************)
\* the range is exhausted: fetch_page_data returns collected_data
Return ==
  /\ pc = "for"
  /\ nextID >= end_page
  /\ pc' = "export"
  /\ log' = log \cup {<<"completed">>}
  /\ UNCHANGED <<args, nextID, pageID, url, retries, title, collected_data,
                 files, csv, remote, attempts, rawReqs, sentTo, writeLog,
                 run, prev>>

\* save_to_csv(data, args.output), then the process exits
SaveToCsv ==
  /\ pc = "export"
  /\ csv' = CsvAfterSave(csv, collected_data)
  /\ log' = log \cup {IF collected_data = <<>> THEN <<"nodata">>
                      ELSE <<"csv">>}
  /\ pc' = "exited"
  /\ UNCHANGED <<args, nextID, pageID, url, retries, title, collected_data,
                 files, remote, attempts, rawReqs, sentTo, writeLog, run,
                 prev>>

\* the program is started a second time with the same arguments, output
\* paths and remote state; the file system is what the first run left
Rerun ==
  /\ pc \in {"exited", "aborted"}
  /\ run = 1
  /\ run' = 2
  /\ prev' = [files |-> files, csv |-> csv]
  /\ pc' = "for"
  /\ nextID' = start_page
  /\ pageID' = start_page - 1
  /\ url' = BASE_URL
  /\ retries' = 0
  /\ title' = <<>>
  /\ collected_data' = <<>>
  /\ attempts' = EmptyMap
  /\ rawReqs' = EmptyMap
  /\ sentTo' = NoRequest
  /\ writeLog' = <<>>
  /\ log' = {}
  /\ UNCHANGED <<args, files, csv, remote>>

Next ==
  \/ NextPage
  \/ WhileExit
  \/ SendRequest
  \/ RequestFails
  \/ RequestMalformed
  \/ RequestAbsent
  \/ RequestMissing
  \/ RequestFound
  \/ ContentSaved
  \/ ContentFails
  \/ Return
  \/ SaveToCsv
  \/ Rerun

Spec == Init /\ [][Next]_vars

\* the process is sequential and always takes its next step
FairSpec == Spec /\ WF_vars(Next)

(***************************************************************************)
(* Properties.                                                             *)
(***************************************************************************)
Rows(rows, p) == {i \in 1..Len(rows) : rows[i].pageID = p}
Writes(p) == {i \in 1..Len(writeLog) : writeLog[i].id = p}
\* IDs the current run has started to process
Started == DOMAIN attempts
\* this run has received at least max_retries transport failures for p
\* from a site that answers p with failures that many times in a row
FailedOut(p) == p \in Started /\ remote[p].fails >= max_retries
\* this run has received a body for p that is not JSON
MalformedSeen(p) ==
  /\ p \in Started
  /\ remote[p].kind = "malformed"
  /\ attempts[p] > remote[p].fails
  /\ ~(p = pageID /\ pc = "response")
\* this run has made the raw-content request of p and it failed
RawFailed(p) ==
  /\ p \in Started
  /\ remote[p].kind = "found"
  /\ ~remote[p].raw
  /\ rawReqs[p] >= 1

\* C1: an ID whose metadata request fails at transport level max_retries
\* times in a row gets exactly max_retries attempts, is logged as skipped,
\* gets no record, and the run goes on to the next ID with retries = 0.
C1_RetryBound ==
  /\ \A p \in Started :
       FailedOut(p) =>
         /\ attempts[p] <= max_retries
         /\ ~(pc = "aborted" /\ pageID = p)
         /\ Finished(p) =>
              /\ attempts[p] = max_retries
              /\ <<"skip", p>> \in log
              /\ Rows(collected_data, p) = {}
  /\ (pc = "while" /\ attempts[pageID] = 0) => retries = 0

\* the same statement for download.py alone
C1_RetryBoundRequests == variant = "requests" => C1_RetryBound

\* C2: whatever the per-page outcomes, the run is never aborted, and it
\* eventually has requested every ID of the range and exited normally.
C2_RunCompletion ==
  /\ [](pc # "aborted")
  /\ <>(pc = "exited" /\ \A p \in Range : Count(attempts, p) >= 1)

\* the same statement for download.py alone
C2_RunCompletionRequests ==
  (variant = "requests") =>
     /\ [](pc # "aborted")
     /\ <>(pc = "exited" /\ \A p \in Range : Count(attempts, p) >= 1)

RecordsOk(rows) ==
  /\ \A i, j \in 1..Len(rows) : rows[i].pageID = rows[j].pageID => i = j
  /\ \A i \in 1..Len(rows) :
       /\ rows[i].pageID \in Range
       /\ remote[rows[i].pageID].kind = "missing" =>
            rows[i].revisions_count = 0 /\ rows[i].title = <<>>

\* C3: the record list, and the exported table, hold at most one record per
\* page ID, only IDs of [start, end), and a record of a page reported
\* missing has revisions_count 0 and an empty title.
C3_RecordInvariant ==
  /\ RecordsOk(collected_data)
  /\ csv # NoFile => RecordsOk(csv.rows)

C3_Witness ==
  /\ Len(collected_data) = 2
  /\ \E i \in 1..2 : remote[collected_data[i].pageID].kind = "missing"
  /\ \E i \in 1..2 : remote[collected_data[i].pageID].kind = "found"
  /\ pc = "exited"

\* C4 as stated: when every ID of the range was reported missing or was
\* abandoned after failures, the run that exits has written no table and
\* has logged the warning.
C4_EmptyResultOriginal ==
  (pc = "exited" /\
   \A p \in Range : <<"missing", p>> \in log \/ <<"skip", p>> \in log) =>
     /\ <<"csv">> \notin log
     /\ <<"nodata">> \in log
     /\ csv = prev.csv

\* C4 amended: in download.py, when every ID of the range was abandoned
\* after failures, the run that exits has written no table and has logged
\* the warning, and the run is never aborted; when some ID is reported
\* missing the table is written and holds that ID's zero record.
C4_EmptyResultAmended ==
  /\ (pc = "exited" /\ \A p \in Range : <<"skip", p>> \in log) =>
       /\ <<"csv">> \notin log
       /\ <<"nodata">> \in log
       /\ csv = prev.csv
  /\ (pc = "exited" /\ \E p \in Range : <<"missing", p>> \in log) =>
       /\ <<"csv">> \in log
       /\ csv # NoFile
       /\ csv.rows = collected_data
       /\ \A p \in Range : <<"missing", p>> \in log =>
            \E i \in 1..Len(csv.rows) :
               csv.rows[i] = [pageID |-> p, title |-> <<>>,
                              revisions_count |-> 0]
  /\ variant = "requests" => pc # "aborted"

C4_Witness ==
  /\ variant = "requests"
  /\ pc = "exited"
  /\ run = 1
  /\ end_page = start_page + 2
  /\ \A p \in Range : <<"skip", p>> \in log

\* <output_folder>/<pageID div 1000>/<pageID>.txt
ExpectedPath(p) == <<"output_folder", Str(p \div 1000), Str(p) \o <<".txt">>>>

\* C5: a run writes a text file only for IDs of the range that were found
\* and whose raw-content request succeeded, at most once per ID, at
\* <output_folder>/<pageID div 1000>/<pageID>.txt; it writes nothing for a
\* missing or abandoned ID and leaves every other file as it was.
C5_FilePlacement ==
  /\ \A i \in 1..Len(writeLog) :
       /\ writeLog[i].id \in Range
       /\ remote[writeLog[i].id].kind = "found"
       /\ remote[writeLog[i].id].raw
       /\ <<"scraped", writeLog[i].id>> \in log
       /\ writeLog[i].path = ExpectedPath(writeLog[i].id)
       /\ writeLog[i].path \in DOMAIN files
       /\ Cardinality(Writes(writeLog[i].id)) = 1
  /\ \A p \in Range :
       (<<"missing", p>> \in log \/ <<"skip", p>> \in log) => Writes(p) = {}
  /\ FilePath(999) = <<"output_folder", <<0>>, <<9, 9, 9, ".txt">>>>
  /\ FilePath(2500) = <<"output_folder", <<2>>, <<2, 5, 0, 0, ".txt">>>>
  /\ DOMAIN files =
       DOMAIN prev.files \cup {writeLog[i].path : i \in 1..Len(writeLog)}
  /\ \A q \in DOMAIN prev.files :
       (\A i \in 1..Len(writeLog) : writeLog[i].path # q) =>
          files[q] = prev.files[q]

C5_Witness ==
  /\ Len(writeLog) = 2
  /\ writeLog[1].path[2] # writeLog[2].path[2]
  /\ files[FilePath(1)] = <<"old">>
  /\ pc = "exited"

\* C6: in download.py, once the raw-content request of a found page has
\* failed: the failure is logged, that request was made exactly once, the
\* metadata request was not repeated after its success, the page's record
\* is in the list unchanged, no file was written for the ID, and the loop
\* has left the ID (it goes on with the next one).
C6_ContentFailure ==
  \A p \in Started :
    (variant = "requests" /\ RawFailed(p)) =>
       /\ <<"rawfail", p>> \in log
       /\ rawReqs[p] = 1
       /\ attempts[p] = remote[p].fails + 1
       /\ \E i \in 1..Len(collected_data) :
            /\ Rows(collected_data, p) = {i}
            /\ collected_data[i] =
                 [pageID |-> p,
                  title |-> Sanitize(remote[p].page.title),
                  revisions_count |-> Len(remote[p].page.revisions)]
       /\ Writes(p) = {}
       /\ (ExpectedPath(p) \in DOMAIN files =>
             /\ ExpectedPath(p) \in DOMAIN prev.files
             /\ files[ExpectedPath(p)] = prev.files[ExpectedPath(p)])
       /\ pc # "aborted"
       /\ Finished(p)

C6_Witness ==
  /\ variant = "requests"
  /\ RawFailed(start_page)
  /\ pageID = start_page + 1
  /\ pc = "while"

\* C7: when the second run with the same range, output paths and remote
\* responses has ended, the table file and every text file hold what they
\* held after the first run, and no file has been added.
C7_Idempotence ==
  (run = 2 /\ pc \in {"exited", "aborted"}) =>
     /\ csv = prev.csv
     /\ DOMAIN files = DOMAIN prev.files
     /\ files = prev.files

C7_Witness ==
  /\ run = 2
  /\ pc = "exited"
  /\ csv # NoFile
  /\ Len(writeLog) = 2

\* the raw text of the page the site holds under the title t
TextOfPage(t) == [page |-> t, form |-> "text"]

\* C8: in download.py, for a found page the recorded title is the original
\* title with every "/" replaced by "_", and the text written to
\* <pageID>.txt is the raw text of that page (the page with the original
\* title).
C8_TitleSanitization ==
  \A i \in 1..Len(writeLog) :
    variant = "requests" =>
      /\ \E j \in 1..Len(collected_data) :
           /\ collected_data[j].pageID = writeLog[i].id
           /\ collected_data[j].title =
                Sanitize(remote[writeLog[i].id].page.title)
      /\ files[writeLog[i].path] =
           <<TextOfPage(remote[writeLog[i].id].page.title)>>

\* C9: a metadata response that is not JSON is logged, leaves no record for
\* the ID, does not abort the run, and the loop eventually leaves the ID.
C9_MalformedContinues ==
  \A p \in AllIDs :
    /\ [](MalformedSeen(p) =>
            /\ <<"error", p>> \in log \/ <<"parse", p>> \in log
            /\ Rows(collected_data, p) = {}
            /\ pc # "aborted")
    /\ (MalformedSeen(p) ~> Finished(p))

\* the same statement for download.py alone
C9_MalformedContinuesRequests ==
  \A p \in AllIDs :
    (variant = "requests") =>
      /\ [](MalformedSeen(p) =>
              /\ <<"error", p>> \in log
              /\ Rows(collected_data, p) = {}
              /\ pc # "aborted")
      /\ (MalformedSeen(p) ~> Finished(p))

\* C10: in both variants every metadata request made while processing
\* pageID goes to the base URL followed by exactly str(pageID).
C10_RequestUrl ==
  \A i \in 1..Len(sentTo) : sentTo[i].url = BASE_URL \o Str(sentTo[i].id)

\* the same statement for download.py alone
C10_RequestUrlRequests == variant = "requests" => C10_RequestUrl

====
